---- MODULE Spec2Model ----
(***************************************************************************)
(* A model of ImReadyManager (src/src/ImReadyManager.ts): the readiness    *)
(* aggregation engine of egjs-imready.  One Manager instance, the loaders  *)
(* of its current batch, the deferred firings that check() schedules for   *)
(* an empty batch, and the stream of events the Manager triggers.          *)
(* A second specification (SpecTree) composes a Manager with the nested    *)
(* Manager that getLoader clones for a container resource.                 *)
(* A third (SpecStale) follows the loaders of discarded batches that were  *)
(* ready, hence not destroyed, and can still emit error.                   *)
(*                                                                         *)
(* Array indices are 0-based as in the source: the ElementInfo of source   *)
(* index i is elementInfos[i + 1].                                         *)
(***************************************************************************)
EXTENDS Integers, Sequences, FiniteSets, TLC

\* ---------------------------------------------------------------- bounds
MaxLen == 2         \* most resources passed to one check()
MaxChildren == 1    \* most checkable children nested in one resource
MaxErrors == 2      \* most error events the loaders of one batch emit
MaxChecks == 3      \* most check() calls in one behaviour
MaxLoaders == 3     \* most loaders created in one behaviour
MaxSiblings == 1    \* most plain resources checked beside a container
MaxNested == 2      \* most children a container hands to its nested Manager
MaxLateErrors == 1  \* most error events loaders of discarded batches emit
MaxStaleChecks == 2 \* most check() calls when such loaders are followed

VARIABLES
  readyCount,       \* ImReadyManager.readyCount
  preReadyCount,    \* ImReadyManager.preReadyCount
  totalCount,       \* ImReadyManager.totalCount
  totalErrorCount,  \* ImReadyManager.totalErrorCount
  isPreReadyOver,   \* ImReadyManager.isPreReadyOver
  elementInfos,     \* ImReadyManager.elementInfos
  listening,        \* the Manager's own listeners are attached (until off())
  triggered,        \* the events the Manager triggered in the last step, in order
  counts,           \* per event type, how many were triggered since the last clear()
  delivered,        \* the call or event the last step handled, and for a
                    \* clear() what became of the loaders it discarded
  loaders,          \* the loaders of the current batch: what each has emitted
  timers,           \* deferred empty-batch firings scheduled and not yet run
  phase,            \* "idle" | "checked" | "cleared" | "destroyed"
  checks,           \* check() calls made so far
  created,          \* loaders created so far
  passed,           \* the collection the last check() was called with
  recheck,          \* the last check() was made on a settled batch
  stale,            \* the loaders of discarded batches that were ready and so
                    \* not destroyed: the index their listeners closed over
  lateErrors,       \* error events such loaders have emitted
  owner,            \* a Manager whose batch holds a container resource
  childrenImReady,  \* getLoader: the nested Manager cloned for the container
  wiring,           \* getLoader: the listeners and the closure around the
                    \* container's loader, and the calls made on that loader
  ownerLoaders,     \* the loaders of owner's batch: what each has emitted
  childLoaders,     \* the loaders of childrenImReady's batch
  childTimers,      \* deferred firings childrenImReady scheduled, not yet run
  handled           \* the call or event the last step of the tree handled

vars == <<readyCount, preReadyCount, totalCount, totalErrorCount, isPreReadyOver,
          elementInfos, listening, triggered, counts, delivered, loaders,
          timers, phase, checks, created, passed, recheck, stale, lateErrors,
          owner, childrenImReady, wiring, ownerLoaders, childLoaders,
          childTimers, handled>>

\* The single Manager and its batch.
batchVars == <<readyCount, preReadyCount, totalCount, totalErrorCount,
               isPreReadyOver, elementInfos, listening, triggered, counts,
               delivered, loaders, timers, phase, checks, created, passed, recheck,
               stale, lateErrors>>

\* The Manager that owns a container, and the container's nested Manager.
treeVars == <<owner, childrenImReady, wiring, ownerLoaders, childLoaders,
              childTimers, handled>>

\* ------------------------------------------------------------- resources
\* A resource handed to check(): an element with some number of checkable
\* children (a container when > 0) that may carry the skip marker.
Resource == [children : 0..MaxChildren, skip : BOOLEAN]

\* A failing target inside a resource: 0 is the element itself, k > 0 its
\* k-th checkable child.
Targets(element) == 0..element.children

RECURSIVE SeqsUpTo(_, _)
SeqsUpTo(S, n) ==
  IF n = 0 THEN {<<>>}
  ELSE LET shorter == SeqsUpTo(S, n - 1)
       IN  shorter \cup {Append(s, x) : s \in {t \in shorter : Len(t) = n - 1}, x \in S}

\* toArray(elements): the collections check() can be called with.
ArrayFormat == SeqsUpTo(Resource, MaxLen)

\* ------------------------------------------------------ the Manager object
EventTypes == {"error", "preReadyElement", "preReady", "readyElement", "ready"}

NoCounts == [t \in EventTypes |-> 0]

\* The Manager's fields as one record, so that a handler's statements can be
\* composed in source order.  A step starts with nothing triggered yet.
Self ==
  [readyCount |-> readyCount, preReadyCount |-> preReadyCount,
   totalCount |-> totalCount, totalErrorCount |-> totalErrorCount,
   isPreReadyOver |-> isPreReadyOver, elementInfos |-> elementInfos,
   triggered |-> <<>>, counts |-> counts]

Store(m) ==
  /\ readyCount' = m.readyCount
  /\ preReadyCount' = m.preReadyCount
  /\ totalCount' = m.totalCount
  /\ totalErrorCount' = m.totalErrorCount
  /\ isPreReadyOver' = m.isPreReadyOver
  /\ elementInfos' = m.elementInfos
  /\ triggered' = m.triggered
  /\ counts' = m.counts

\* Component.trigger(name, payload)
trigger(m, e) == [m EXCEPT !.triggered = Append(@, e), !.counts[e.type] = @ + 1]

\* this.elementInfos[index]
InfoAt(m, index) == m.elementInfos[index + 1]

SetInfo(m, index, info) == [m EXCEPT !.elementInfos[index + 1] = info]

\* elementInfos.every(info => info.isPreReady)
isPreReady(m) == \A k \in 1..Len(m.elementInfos) : m.elementInfos[k].isPreReady

\* elementInfos.every(info => info.isReady)
isReady(m) == \A k \in 1..Len(m.elementInfos) : m.elementInfos[k].isReady

\* Mutant of getErrorCount: errorCount kept as a running sum of failures.
getErrorCountAsRunningSum(m) == m.totalErrorCount

\* elementInfos.filter(info => info.hasError).length
getErrorCount(m) ==
  Cardinality({k \in 1..Len(m.elementInfos) : m.elementInfos[k].hasError})

\* elementInfos.some(info => info.hasLoading)
hasLoading(m) == \E k \in 1..Len(m.elementInfos) : m.elementInfos[k].hasLoading

getTotalCount(m) == m.totalCount

\* checkPreReady(index): the state after, and the value returned.
checkPreReady(m, index) ==
  LET m1 == SetInfo(m, index, [InfoAt(m, index) EXCEPT !.isPreReady = TRUE])
      m2 == [m1 EXCEPT !.preReadyCount = @ + 1]
  IN  [state |-> m2, result |-> ~(m2.preReadyCount < m2.totalCount)]

\* checkReady(index): the state after, and the value returned.
checkReady(m, index) ==
  LET m1 == SetInfo(m, index, [InfoAt(m, index) EXCEPT !.isReady = TRUE])
      m2 == [m1 EXCEPT !.readyCount = @ + 1]
  IN  [state |-> m2, result |-> ~(m2.readyCount < m2.totalCount)]

\* Mutant of onError: errorCount is read before the resource is marked.
onErrorCountBeforeMark(m, index, target) ==
  LET errorCount == getErrorCount(m)
      m1 == SetInfo(m, index, [InfoAt(m, index) EXCEPT !.hasError = TRUE])
      info == InfoAt(m1, index)
      m2 == [m1 EXCEPT !.totalErrorCount = @ + 1]
  IN  trigger(m2, [type |-> "error", element |-> info.element, index |-> index,
                   target |-> target, errorCount |-> errorCount,
                   totalErrorCount |-> m2.totalErrorCount])

\* Mutant of onError: a failure settles the resource as ready.
onErrorSettlesResource(m, index, target) ==
  LET m1 == SetInfo(m, index, [InfoAt(m, index) EXCEPT !.hasError = TRUE])
      rdy == checkReady(m1, index).state
      info == InfoAt(rdy, index)
      errorCount == getErrorCount(rdy)
      m2 == [rdy EXCEPT !.totalErrorCount = @ + 1]
  IN  trigger(m2, [type |-> "error", element |-> info.element, index |-> index,
                   target |-> target, errorCount |-> errorCount,
                   totalErrorCount |-> m2.totalErrorCount])

\* onError(index, target)
onError(m, index, target) ==
  LET m1 == SetInfo(m, index, [InfoAt(m, index) EXCEPT !.hasError = TRUE])
      info == InfoAt(m1, index)
      \* the payload's properties are evaluated in order: getErrorCount()
      \* first, then ++this.totalErrorCount
      errorCount == getErrorCount(m1)
      m2 == [m1 EXCEPT !.totalErrorCount = @ + 1]
  IN  trigger(m2, [type |-> "error", element |-> info.element, index |-> index,
                   target |-> target, errorCount |-> errorCount,
                   totalErrorCount |-> m2.totalErrorCount])

\* onPreReadyElement(index)
onPreReadyElement(m, index) ==
  LET info == InfoAt(m, index)
  IN  trigger(m, [type |-> "preReadyElement", element |-> info.element,
                  index |-> index, preReadyCount |-> m.preReadyCount,
                  readyCount |-> m.readyCount, totalCount |-> m.totalCount,
                  isPreReady |-> isPreReady(m), isReady |-> isReady(m),
                  hasLoading |-> info.hasLoading])

\* onPreReady()
onPreReady(m) ==
  LET m1 == [m EXCEPT !.isPreReadyOver = TRUE]
  IN  trigger(m1, [type |-> "preReady", readyCount |-> m1.readyCount,
                   totalCount |-> m1.totalCount, isReady |-> isReady(m1),
                   hasLoading |-> hasLoading(m1)])

\* onReadyElement(index)
onReadyElement(m, index) ==
  LET info == InfoAt(m, index)
  IN  trigger(m, [type |-> "readyElement", index |-> index,
                  element |-> info.element, hasError |-> info.hasError,
                  errorCount |-> getErrorCount(m),
                  totalErrorCount |-> m.totalErrorCount,
                  preReadyCount |-> m.preReadyCount, readyCount |-> m.readyCount,
                  totalCount |-> m.totalCount, isPreReady |-> isPreReady(m),
                  isReady |-> isReady(m), hasLoading |-> info.hasLoading,
                  isPreReadyOver |-> m.isPreReadyOver])

\* onReady()
onReady(m) ==
  trigger(m, [type |-> "ready", errorCount |-> getErrorCount(m),
              totalErrorCount |-> m.totalErrorCount, totalCount |-> m.totalCount])

\* ------------------------------------------------- the loader listeners
\* loader.on("error", e => this.onError(index, e.target))
onLoaderError(m, index, target) == onError(m, index, target)

\* loader.on("preReady", e => ...)
onLoaderPreReady(m, index, eHasLoading) ==
  LET m1 == SetInfo(m, index, [InfoAt(m, index) EXCEPT !.hasLoading = eHasLoading])
      pre == checkPreReady(m1, index)
      m2 == onPreReadyElement(pre.state, index)
  IN  IF pre.result THEN onPreReady(m2) ELSE m2

\* loader.on("ready", ({ withPreReady, hasLoading }) => ...)
onLoaderReady(m, index, withPreReady, eHasLoading) ==
  LET m1 == SetInfo(m, index, [InfoAt(m, index) EXCEPT !.hasLoading = eHasLoading])
      pre == IF withPreReady THEN checkPreReady(m1, index)
                             ELSE [state |-> m1, result |-> FALSE]
      rdy == checkReady(pre.state, index)
      m2 == IF withPreReady THEN onPreReadyElement(rdy.state, index) ELSE rdy.state
      m3 == onReadyElement(m2, index)
      m4 == IF pre.result THEN onPreReady(m3) ELSE m3
  IN  IF rdy.result THEN onReady(m4) ELSE m4

\* The callback check() hands to setTimeout for an empty batch.
onTimeout(m) == onReady(onPreReady(m))

\* ------------------------------------------------ check / clear / destroy
\* clear(): the Manager's fields afterwards.
clear(m) ==
  [m EXCEPT !.isPreReadyOver = FALSE, !.totalCount = 0, !.preReadyCount = 0,
            !.readyCount = 0, !.totalErrorCount = 0, !.elementInfos = <<>>,
            !.triggered = <<>>, !.counts = NoCounts]

\* Mutant of clearLoaders: destroy() is called on every loader of the batch.
clearLoadersDestroyingAll(m) ==
  [k \in 1..Len(m.elementInfos) |->
     [isReady |-> m.elementInfos[k].isReady, destroyCalls |-> 1]]

\* clear(): the loaders of the batch it discards; destroy() is called on
\* those whose ElementInfo is not ready.
clearLoaders(m) ==
  [k \in 1..Len(m.elementInfos) |->
     [isReady |-> m.elementInfos[k].isReady,
      destroyCalls |-> IF ~m.elementInfos[k].isReady THEN 1 ELSE 0]]

\* The ElementInfo check() creates for an element.
NewInfo(element) ==
  [element |-> element, hasLoading |-> FALSE, hasError |-> FALSE,
   isPreReady |-> FALSE, isReady |-> FALSE]

\* A loader on which check() was just called: it has emitted nothing yet.
NewLoader == [preReady |-> FALSE, ready |-> FALSE, errors |-> 0]

RECURSIVE CountWithChildren(_)
CountWithChildren(elements) ==
  IF elements = <<>> THEN 0
  ELSE 1 + Head(elements).children + CountWithChildren(Tail(elements))

\* Mutant of check: totalCount also counts the nested checkable children.
checkCountingChildren(m, elements) ==
  LET m1 == clear(m)
      m2 == [m1 EXCEPT !.elementInfos =
                         [k \in 1..Len(elements) |-> NewInfo(elements[k])]]
  IN  [m2 EXCEPT !.totalCount = CountWithChildren(elements)]

\* check(elements): the Manager's fields when it returns.
check(m, elements) ==
  LET m1 == clear(m)
      m2 == [m1 EXCEPT !.elementInfos =
                         [k \in 1..Len(elements) |-> NewInfo(elements[k])]]
      length == Len(m2.elementInfos)
  IN  [m2 EXCEPT !.totalCount = length]

\* Mutant of checkSchedules: an empty batch schedules nothing.
checkSchedulesNothing(m) == 0

\* check() schedules the deferred firing when the batch is empty.
checkSchedules(m) == IF Len(m.elementInfos) = 0 THEN 1 ELSE 0

\* A Manager as its constructor (and clone()) leaves it.
NewManager ==
  [readyCount |-> 0, preReadyCount |-> 0, totalCount |-> 0, totalErrorCount |-> 0,
   isPreReadyOver |-> TRUE, elementInfos |-> <<>>, triggered |-> <<>>,
   counts |-> NoCounts]

\* The calls getLoader's listeners can make on the container's loader.
NoCalls == [onError |-> 0, onPreReady |-> 0, onReadyTrue |-> 0, onReadyFalse |-> 0]

\* getLoader before any container was checked: no listener attached yet.
NewWiring ==
  [stage |-> "new", index |-> 0, requested |-> "none", hasLoading |-> FALSE,
   withPreReady |-> FALSE, subscribed |-> FALSE, preReadySubscribed |-> FALSE,
   calls |-> NoCalls]

\* ----------------------------------------------------------------- state
Init ==
  /\ readyCount = 0
  /\ preReadyCount = 0
  /\ totalCount = 0
  /\ totalErrorCount = 0
  /\ isPreReadyOver = TRUE
  /\ elementInfos = <<>>
  /\ listening = TRUE
  /\ triggered = <<>>
  /\ counts = NoCounts
  /\ delivered = [kind |-> "new"]
  /\ loaders = <<>>
  /\ timers = 0
  /\ phase = "idle"
  /\ checks = 0
  /\ created = 0
  /\ passed = <<>>
  /\ recheck = FALSE
  /\ stale = {}
  /\ lateErrors = 0
  /\ owner = NewManager
  /\ childrenImReady = NewManager
  /\ wiring = NewWiring
  /\ ownerLoaders = <<>>
  /\ childLoaders = <<>>
  /\ childTimers = 0
  /\ handled = [kind |-> "new"]

\* The batch has settled: it is not empty, every ElementInfo is ready and
\* the batch `ready` event was triggered.
Settled ==
  /\ phase = "checked"
  /\ totalCount >= 1
  /\ isReady(Self)
  /\ counts["ready"] >= 1

\* im.check(elements): the Manager and the loaders of its batch.
CallCheck(elements) ==
  /\ phase # "destroyed"
  /\ checks < MaxChecks
  /\ created + Len(elements) <= MaxLoaders
  /\ LET m == check(Self, elements)
     IN  /\ Store(m)
         /\ timers' = timers + checkSchedules(m)
  /\ loaders' = [k \in 1..Len(elements) |-> NewLoader]
  /\ phase' = "checked"
  /\ checks' = checks + 1
  /\ created' = created + Len(elements)
  /\ passed' = elements
  /\ recheck' = Settled
  /\ delivered' = [kind |-> "check", elements |-> elements,
                    discarded |-> clearLoaders(Self)]
  /\ UNCHANGED listening
  /\ UNCHANGED treeVars

\* im.check(elements)
Check(elements) == CallCheck(elements) /\ UNCHANGED <<stale, lateErrors>>

\* im.clear(): the Manager and the loaders of its batch.
CallClear ==
  /\ phase # "destroyed"
  /\ Store(clear(Self))
  /\ loaders' = <<>>
  /\ phase' = "cleared"
  /\ delivered' = [kind |-> "clear", discarded |-> clearLoaders(Self)]
  /\ passed' = <<>>
  /\ recheck' = FALSE
  /\ UNCHANGED <<listening, timers, checks, created>>
  /\ UNCHANGED treeVars

\* im.clear()
Clear == CallClear /\ UNCHANGED <<stale, lateErrors>>

\* Mutant of Destroy: clear() without off(), the listeners stay subscribed.
DestroyKeepingListeners ==
  /\ phase # "destroyed"
  /\ Store(clear(Self))
  /\ loaders' = <<>>
  /\ phase' = "destroyed"
  /\ delivered' = [kind |-> "destroy", discarded |-> clearLoaders(Self)]
  /\ passed' = <<>>
  /\ recheck' = FALSE
  /\ UNCHANGED <<listening, timers, checks, created>>
  /\ UNCHANGED <<stale, lateErrors>>
  /\ UNCHANGED treeVars

\* im.destroy(), clear() and off(): the Manager and the loaders of its batch.
CallDestroy ==
  /\ phase # "destroyed"
  /\ Store(clear(Self))
  /\ loaders' = <<>>
  /\ listening' = FALSE
  /\ phase' = "destroyed"
  /\ delivered' = [kind |-> "destroy", discarded |-> clearLoaders(Self)]
  /\ passed' = <<>>
  /\ recheck' = FALSE
  /\ UNCHANGED <<timers, checks, created>>
  /\ UNCHANGED treeVars

\* im.destroy()
Destroy == CallDestroy /\ UNCHANGED <<stale, lateErrors>>

RECURSIVE SumErrors(_)
SumErrors(ls) == IF ls = <<>> THEN 0 ELSE Head(ls).errors + SumErrors(Tail(ls))

\* The error events the loaders of the current batch have emitted.
ErrorsDelivered == SumErrors(loaders)

\* The loader of source index `index` emits error(target).
LoaderError(index, target) ==
  /\ index + 1 \in DOMAIN loaders
  /\ ~loaders[index + 1].ready
  /\ ErrorsDelivered < MaxErrors
  /\ target \in Targets(InfoAt(Self, index).element)
  /\ Store(onLoaderError(Self, index, target))
  /\ loaders' = [loaders EXCEPT ![index + 1].errors = @ + 1]
  /\ delivered' = [kind |-> "error", index |-> index, target |-> target]
  /\ UNCHANGED <<listening, timers, phase, checks, created, passed, recheck>>
  /\ UNCHANGED <<stale, lateErrors>>
  /\ UNCHANGED treeVars

\* The loader of source index `index` emits preReady(hasLoading).
LoaderPreReady(index, eHasLoading) ==
  /\ index + 1 \in DOMAIN loaders
  /\ ~loaders[index + 1].ready
  /\ ~loaders[index + 1].preReady
  /\ Store(onLoaderPreReady(Self, index, eHasLoading))
  /\ loaders' = [loaders EXCEPT ![index + 1].preReady = TRUE]
  /\ delivered' = [kind |-> "preReady", index |-> index, hasLoading |-> eHasLoading]
  /\ UNCHANGED <<listening, timers, phase, checks, created, passed, recheck>>
  /\ UNCHANGED <<stale, lateErrors>>
  /\ UNCHANGED treeVars

\* The loader of source index `index` emits ready(withPreReady, hasLoading).
LoaderReady(index, withPreReady, eHasLoading) ==
  /\ index + 1 \in DOMAIN loaders
  /\ ~loaders[index + 1].ready
  /\ Store(onLoaderReady(Self, index, withPreReady, eHasLoading))
  /\ loaders' = [loaders EXCEPT ![index + 1].ready = TRUE]
  /\ delivered' = [kind |-> "ready", index |-> index, withPreReady |-> withPreReady,
                    hasLoading |-> eHasLoading]
  /\ UNCHANGED <<listening, timers, phase, checks, created, passed, recheck>>
  /\ UNCHANGED <<stale, lateErrors>>
  /\ UNCHANGED treeVars

\* A deferred empty-batch firing runs.
Timeout ==
  /\ timers > 0
  /\ Store(onTimeout(Self))
  /\ timers' = timers - 1
  /\ delivered' = [kind |-> "timeout"]
  /\ UNCHANGED <<listening, loaders, phase, checks, created, passed, recheck>>
  /\ UNCHANGED <<stale, lateErrors>>
  /\ UNCHANGED treeVars

Next ==
  \/ \E elements \in ArrayFormat : Check(elements)
  \/ Clear
  \/ Destroy
  \/ \E index \in 0..(MaxLen - 1), target \in 0..MaxChildren : LoaderError(index, target)
  \/ \E index \in 0..(MaxLen - 1), eHasLoading \in BOOLEAN :
       LoaderPreReady(index, eHasLoading)
  \/ \E index \in 0..(MaxLen - 1), withPreReady \in BOOLEAN, eHasLoading \in BOOLEAN :
       LoaderReady(index, withPreReady, eHasLoading)
  \/ Timeout

Spec == Init /\ [][Next]_vars

\* ------------------------------------------- loaders of discarded batches
\* The loaders clear() leaves alone: those whose ElementInfo is ready.  Their
\* listeners stay attached, with the index they closed over.
Kept ==
  {[index |-> k - 1, children |-> elementInfos[k].element.children] :
     k \in {j \in 1..Len(elementInfos) : elementInfos[j].isReady}}

\* im.check(elements), remembering the loaders it left alone.
DiscardingCheck(elements) ==
  /\ checks < MaxStaleChecks
  /\ CallCheck(elements)
  /\ stale' = stale \cup Kept
  /\ UNCHANGED lateErrors

\* im.clear(), remembering the loaders it left alone.
DiscardingClear ==
  /\ CallClear
  /\ stale' = stale \cup Kept
  /\ UNCHANGED lateErrors

\* im.destroy(), remembering the loaders it left alone.
DiscardingDestroy ==
  /\ CallDestroy
  /\ stale' = stale \cup Kept
  /\ UNCHANGED lateErrors

\* A loader of a discarded batch emits `error`: its listener runs
\* this.onError(index, e.target) on the elementInfos of the current batch.
\* Without an ElementInfo at that index, info is undefined and
\* `info.hasError = true` throws a TypeError before anything is changed.
LateError(loader, target) ==
  /\ loader \in stale
  /\ target \in 0..loader.children
  /\ lateErrors < MaxLateErrors
  /\ lateErrors' = lateErrors + 1
  /\ IF loader.index + 1 \in DOMAIN elementInfos
     THEN /\ Store(onLoaderError(Self, loader.index, target))
          /\ delivered' = [kind |-> "lateError", index |-> loader.index,
                           target |-> target, outcome |-> "handled"]
     ELSE /\ Store(Self)
          /\ delivered' = [kind |-> "lateError", index |-> loader.index,
                           target |-> target, outcome |-> "TypeError"]
  /\ UNCHANGED <<listening, loaders, timers, phase, checks, created, passed,
                 recheck, stale>>
  /\ UNCHANGED treeVars

NextStale ==
  \/ \E elements \in ArrayFormat : DiscardingCheck(elements)
  \/ DiscardingClear
  \/ DiscardingDestroy
  \/ \E index \in 0..(MaxLen - 1), target \in 0..MaxChildren : LoaderError(index, target)
  \/ \E index \in 0..(MaxLen - 1), eHasLoading \in BOOLEAN :
       LoaderPreReady(index, eHasLoading)
  \/ \E index \in 0..(MaxLen - 1), withPreReady \in BOOLEAN, eHasLoading \in BOOLEAN :
       LoaderReady(index, withPreReady, eHasLoading)
  \/ Timeout
  \/ \E index \in 0..(MaxLen - 1), children \in 0..MaxChildren, target \in 0..MaxChildren :
       LateError([index |-> index, children |-> children], target)

\* One Manager whose discarded ready loaders can still emit `error`.
SpecStale == Init /\ [][NextStale]_vars

\* ------------------------------------------- a container and its children
\* A Manager record at the start of a step: nothing triggered yet.
Fresh(m) == [m EXCEPT !.triggered = <<>>]

\* A plain resource checked beside the container.
Sibling == [children |-> 0, skip |-> FALSE]

\* The container resource, with its checkable children.
Container(n) == [children |-> n, skip |-> FALSE]

\* The k-th checkable child of the container, as handed to the nested
\* Manager.
Child(k) == [children |-> 0, skip |-> FALSE, child |-> k]

\* The state the listeners of one step act on: the owning Manager, the
\* wiring of the container's loader and the loaders of the owning batch.
Tree == [owner |-> Fresh(owner), wiring |-> wiring, ownerLoaders |-> ownerLoaders]

\* The container's loader emits `error`: the listener check() attached in
\* the owning Manager runs.
loaderOnError(st, target) ==
  LET index == st.wiring.index
  IN  [st EXCEPT !.wiring.calls.onError = @ + 1,
                 !.ownerLoaders[index + 1].errors = @ + 1,
                 !.owner = onLoaderError(st.owner, index, target)]

\* loader.onPreReady(): the container's loader emits `preReady`, at most
\* once and not after `ready`.
loaderOnPreReady(st) ==
  LET index == st.wiring.index
      st1 == [st EXCEPT !.wiring.calls.onPreReady = @ + 1]
  IN  IF st.ownerLoaders[index + 1].preReady \/ st.ownerLoaders[index + 1].ready
      THEN st1
      ELSE [st1 EXCEPT !.ownerLoaders[index + 1].preReady = TRUE,
                       !.owner = onLoaderPreReady(st.owner, index,
                                                  st.wiring.hasLoading)]

\* loader.onReady(withPreReady): the container's loader emits `ready` with
\* that flag, once.
loaderOnReady(st, withPreReady) ==
  LET index == st.wiring.index
      st1 == IF withPreReady
             THEN [st EXCEPT !.wiring.calls.onReadyTrue = @ + 1]
             ELSE [st EXCEPT !.wiring.calls.onReadyFalse = @ + 1]
  IN  IF st.ownerLoaders[index + 1].ready
      THEN st1
      ELSE [st1 EXCEPT !.ownerLoaders[index + 1].ready = TRUE,
                       !.owner = onLoaderReady(st.owner, index, withPreReady,
                                               st.wiring.hasLoading)]

\* Mutant of childrenOnError: the container itself is forwarded as target.
childrenOnErrorNamingContainer(st, e) ==
  loaderOnError(st, InfoAt(st.owner, st.wiring.index).element)

\* childrenImReady.on("error", e => { loader.onError(e.target); })
childrenOnError(st, e) == loaderOnError(st, e.target)

\* childrenImReady.on("ready", () => { loader.onReady(withPreReady); })
childrenOnReady(st, e) == loaderOnReady(st, st.wiring.withPreReady)

\* The listener requestChildren attaches:
\* on("preReady", e => { withPreReady = e.isReady;
\*                       if (!withPreReady) { loader.onPreReady(); } })
childrenOnPreReady(st, e) ==
  LET st1 == [st EXCEPT !.wiring.withPreReady = e.isReady]
  IN  IF ~st1.wiring.withPreReady THEN loaderOnPreReady(st1) ELSE st1

\* One event the nested Manager triggers reaches the listeners getLoader
\* attached, while they are attached.
dispatch(st, e) ==
  IF ~st.wiring.subscribed THEN st
  ELSE IF e.type = "error" THEN childrenOnError(st, e)
  ELSE IF e.type = "ready" THEN childrenOnReady(st, e)
  ELSE IF e.type = "preReady" /\ st.wiring.preReadySubscribed
       THEN childrenOnPreReady(st, e)
  ELSE st

\* The events of one handler of the nested Manager, in the order triggered.
RECURSIVE dispatchAll(_, _)
dispatchAll(st, events) ==
  IF events = <<>> THEN st
  ELSE dispatchAll(dispatch(st, Head(events)), Tail(events))

\* The nested Manager ran a handler and became m: its events are dispatched.
Nested(m) ==
  LET st == dispatchAll(Tree, m.triggered)
  IN  /\ childrenImReady' = m
      /\ owner' = st.owner
      /\ wiring' = st.wiring
      /\ ownerLoaders' = st.ownerLoaders

\* loader.on("requestChildren", ...): the content elements are checked and
\* the preReady listener attached.
requestChildren(w) ==
  [w EXCEPT !.requested = "children", !.preReadySubscribed = TRUE]

\* loader.on("reqeustReadyChildren", ...): the children are checked; the
\* loader reports pre-ready by itself.
requestReadyChildren(w) == [w EXCEPT !.requested = "readyChildren"]

\* owner.check([...siblings, container]): getLoader wires the container's
\* loader to a cloned Manager, and loader.check() requests the children to
\* be checked (requestChildren when the container declares no size).
TreeCheck(siblings, n, sized, containerHasLoading) ==
  /\ wiring.stage = "new"
  /\ LET elements == [k \in 1..(siblings + 1) |->
                        IF k <= siblings THEN Sibling ELSE Container(n)]
         w == [NewWiring EXCEPT !.stage = "checking", !.index = siblings,
                                !.hasLoading = containerHasLoading,
                                !.subscribed = TRUE]
         m == check(Fresh(childrenImReady), [k \in 1..n |-> Child(k)])
         w1 == IF sized THEN requestReadyChildren(w) ELSE requestChildren(w)
     IN  /\ owner' = check(Fresh(owner), elements)
         /\ childrenImReady' = m
         /\ wiring' = w1
         /\ childTimers' = childTimers + checkSchedules(m)
         /\ ownerLoaders' = [k \in 1..Len(elements) |-> NewLoader]
         /\ childLoaders' = [k \in 1..n |-> NewLoader]
         /\ handled' = [kind |-> "check", siblings |-> siblings, children |-> n,
                        sized |-> sized]
  /\ UNCHANGED batchVars

\* The loader of a nested child emits `error`; the target is the child.
ChildError(index) ==
  /\ wiring.stage = "checking"
  /\ index + 1 \in DOMAIN childLoaders
  /\ ~childLoaders[index + 1].ready
  /\ SumErrors(childLoaders) < MaxErrors
  /\ Nested(onLoaderError(Fresh(childrenImReady), index,
                          InfoAt(childrenImReady, index).element))
  /\ childLoaders' = [childLoaders EXCEPT ![index + 1].errors = @ + 1]
  /\ handled' = [kind |-> "childError", index |-> index]
  /\ UNCHANGED <<childTimers, batchVars>>

\* The loader of a nested child emits `preReady`.
ChildPreReady(index, eHasLoading) ==
  /\ wiring.stage = "checking"
  /\ index + 1 \in DOMAIN childLoaders
  /\ ~childLoaders[index + 1].ready
  /\ ~childLoaders[index + 1].preReady
  /\ Nested(onLoaderPreReady(Fresh(childrenImReady), index, eHasLoading))
  /\ childLoaders' = [childLoaders EXCEPT ![index + 1].preReady = TRUE]
  /\ handled' = [kind |-> "childPreReady", index |-> index]
  /\ UNCHANGED <<childTimers, batchVars>>

\* The loader of a nested child emits `ready`.
ChildReady(index, withPreReady, eHasLoading) ==
  /\ wiring.stage = "checking"
  /\ index + 1 \in DOMAIN childLoaders
  /\ ~childLoaders[index + 1].ready
  /\ Nested(onLoaderReady(Fresh(childrenImReady), index, withPreReady, eHasLoading))
  /\ childLoaders' = [childLoaders EXCEPT ![index + 1].ready = TRUE]
  /\ handled' = [kind |-> "childReady", index |-> index,
                 withPreReady |-> withPreReady]
  /\ UNCHANGED <<childTimers, batchVars>>

\* The deferred firing of the nested Manager's empty check() runs.
ChildrenTimeout ==
  /\ childTimers > 0
  /\ childTimers' = childTimers - 1
  /\ Nested(onTimeout(Fresh(childrenImReady)))
  /\ handled' = [kind |-> "childrenTimeout"]
  /\ UNCHANGED <<childLoaders, batchVars>>

\* A container that declares its size reports pre-ready by itself.
ContainerPreReady ==
  /\ wiring.stage = "checking"
  /\ wiring.requested = "readyChildren"
  /\ ~ownerLoaders[wiring.index + 1].preReady
  /\ ~ownerLoaders[wiring.index + 1].ready
  /\ LET index == wiring.index
     IN  /\ owner' = onLoaderPreReady(Fresh(owner), index, wiring.hasLoading)
         /\ ownerLoaders' = [ownerLoaders EXCEPT ![index + 1].preReady = TRUE]
  /\ handled' = [kind |-> "containerPreReady"]
  /\ UNCHANGED <<childrenImReady, wiring, childLoaders, childTimers, batchVars>>

\* The loader of a plain resource beside the container emits `ready`.
SiblingReady(index, withPreReady, eHasLoading) ==
  /\ wiring.stage = "checking"
  /\ index + 1 \in DOMAIN ownerLoaders
  /\ index # wiring.index
  /\ ~ownerLoaders[index + 1].ready
  /\ owner' = onLoaderReady(Fresh(owner), index, withPreReady, eHasLoading)
  /\ ownerLoaders' = [ownerLoaders EXCEPT ![index + 1].ready = TRUE]
  /\ handled' = [kind |-> "siblingReady", index |-> index,
                 withPreReady |-> withPreReady]
  /\ UNCHANGED <<childrenImReady, wiring, childLoaders, childTimers, batchVars>>

\* loader.on("requestDestroy", () => { childrenImReady.destroy(); })
requestDestroy(w) ==
  [w EXCEPT !.subscribed = FALSE, !.preReadySubscribed = FALSE]

\* owner.destroy(): clear() destroys the container's loader unless its
\* ElementInfo is ready, and the loader then requests the nested Manager to
\* be destroyed.
TreeDestroy ==
  /\ wiring.stage = "checking"
  /\ LET torn == ~InfoAt(owner, wiring.index).isReady
         w == [wiring EXCEPT !.stage = "destroyed"]
     IN  /\ owner' = clear(Fresh(owner))
         /\ childrenImReady' =
              IF torn THEN clear(Fresh(childrenImReady)) ELSE Fresh(childrenImReady)
         /\ wiring' = IF torn THEN requestDestroy(w) ELSE w
         /\ handled' = [kind |-> "destroy", requestDestroy |-> torn]
  /\ ownerLoaders' = <<>>
  /\ childLoaders' = <<>>
  /\ UNCHANGED <<childTimers, batchVars>>

NextTree ==
  \/ \E siblings \in 0..MaxSiblings, n \in 0..MaxNested, sized \in BOOLEAN,
        containerHasLoading \in BOOLEAN :
       TreeCheck(siblings, n, sized, containerHasLoading)
  \/ \E index \in 0..(MaxNested - 1) : ChildError(index)
  \/ \E index \in 0..(MaxNested - 1), eHasLoading \in BOOLEAN :
       ChildPreReady(index, eHasLoading)
  \/ \E index \in 0..(MaxNested - 1), withPreReady \in BOOLEAN, eHasLoading \in BOOLEAN :
       ChildReady(index, withPreReady, eHasLoading)
  \/ ChildrenTimeout
  \/ ContainerPreReady
  \/ \E index \in 0..(MaxSiblings - 1), withPreReady \in BOOLEAN, eHasLoading \in BOOLEAN :
       SiblingReady(index, withPreReady, eHasLoading)
  \/ TreeDestroy

\* A Manager whose batch holds a container, with the container's nested
\* Manager.
SpecTree == Init /\ [][NextTree]_vars

\* A deferred firing of the nested Manager runs: what ChildrenTimeout does
\* to the pending firings.
ChildrenTimerRuns == childTimers > 0 /\ childTimers' = childTimers - 1

\* The same, with the event loop running every deferred firing.
FairSpecTree == SpecTree /\ WF_childTimers(ChildrenTimerRuns)

\* ------------------------------------------------------------ properties
\* A batch started by check() is current.
Checking == phase = "checked"

\* Every loader of the current batch has emitted ready.
AllLoadersReady == \A k \in 1..Len(loaders) : loaders[k].ready

\* The events of one type triggered in the last step.
TriggeredOf(type) == {k \in 1..Len(triggered) : triggered[k].type = type}

\* C1: in a batch of n >= 1 resources the batch `ready` event is triggered
\* exactly once, by the handler of the last loader ready event: none has been
\* triggered while a loader is still to emit ready, and exactly one once all
\* have.
C1_ReadyOnceAtLastLoaderReady ==
  (Checking /\ Len(loaders) >= 1) =>
     /\ counts["ready"] = (IF AllLoadersReady THEN 1 ELSE 0)
     /\ (TriggeredOf("ready") # {} =>
           /\ delivered.kind = "ready"
           /\ triggered[Len(triggered)].type = "ready")

\* C2: whenever the batch `ready` event is triggered, every ElementInfo of the
\* current batch is ready and readyCount = totalCount.
C2_ReadyOnlyWhenAllReady ==
  TriggeredOf("ready") # {} => (isReady(Self) /\ readyCount = totalCount)

\* C3: in a batch that has run to completion the batch `preReady` event was
\* triggered exactly once, and `preReady` is never triggered after the batch
\* `ready` event.
C3_PreReadyOnceNotAfterReady ==
  Checking =>
     /\ (Len(loaders) >= 1 /\ AllLoadersReady) => counts["preReady"] = 1
     /\ \A k \in TriggeredOf("preReady") :
          counts["ready"] = Cardinality({j \in TriggeredOf("ready") : j > k})

\* C4: while a batch is current, totalCount, getTotalCount() and the
\* totalCount of every event payload equal the number of resources passed to
\* check(), a container with nested children counting as one.
C4_TotalCountIsResourcesPassed ==
  Checking =>
     /\ totalCount = Len(passed)
     /\ getTotalCount(Self) = Len(passed)
     /\ \A k \in 1..Len(triggered) :
          triggered[k].type # "error" => triggered[k].totalCount = Len(passed)

C4_Witness ==
  /\ Checking
  /\ Len(passed) = 2
  /\ passed[1].children >= 1
  /\ totalCount = 2
  /\ \E k \in TriggeredOf("ready") : triggered[k].totalCount = 2

\* The resources of the collection passed to check() that carry no skip marker.
NotSkipped == {k \in 1..Len(passed) : ~passed[k].skip}

\* C5: check() ignores resources that carry the skip marker: totalCount, and
\* the number of `readyElement` events triggered when `ready` is, equal the
\* number of resources not marked skip.
C5_SkipResourcesIgnored ==
  Checking =>
     /\ totalCount = Cardinality(NotSkipped)
     /\ getTotalCount(Self) = Cardinality(NotSkipped)
     /\ \A k \in TriggeredOf("ready") :
          /\ triggered[k].totalCount = Cardinality(NotSkipped)
          /\ counts["readyElement"] = Cardinality(NotSkipped)

\* C6: check() with an empty collection triggers nothing before it returns and
\* leaves a deferred firing pending; once the deferred firings have run,
\* `preReady` and then `ready` were triggered, each exactly once, with all
\* counts 0, and the Manager's listeners were still attached.
C6_EmptyCheckFiresBothOnce ==
  (Checking /\ Len(passed) = 0) =>
     /\ delivered.kind = "check" => (triggered = <<>> /\ counts = NoCounts /\ timers >= 1)
     /\ delivered.kind = "timeout" =>
          triggered = <<[type |-> "preReady", readyCount |-> 0, totalCount |-> 0,
                         isReady |-> TRUE, hasLoading |-> FALSE],
                        [type |-> "ready", errorCount |-> 0, totalErrorCount |-> 0,
                         totalCount |-> 0]>>
     /\ timers = 0 => (counts["preReady"] = 1 /\ counts["ready"] = 1)
     /\ listening

\* The resources of the current batch whose loader has emitted an error.
Errored == {k \in 1..Len(loaders) : loaders[k].errors > 0}

\* C7: the batch `ready` payload carries as errorCount the number of distinct
\* resources whose loader emitted an error and as totalErrorCount the number
\* of loader error events delivered in the batch; errorCount never exceeds
\* totalErrorCount or totalCount.
C7_ErrorCounts ==
  /\ \A k \in TriggeredOf("ready") :
       /\ triggered[k].errorCount = Cardinality(Errored)
       /\ triggered[k].totalErrorCount = ErrorsDelivered
  /\ getErrorCount(Self) <= totalErrorCount
  /\ getErrorCount(Self) <= totalCount

C7_Witness ==
  /\ Checking
  /\ Len(loaders) = 2
  /\ AllLoadersReady
  /\ \E k \in TriggeredOf("ready") :
       triggered[k].errorCount = 1 /\ triggered[k].totalErrorCount = 2

\* C8: a loader error event for the resource at index i makes the Manager
\* trigger exactly one event, an `error` carrying index i, that resource, the
\* failing target, an errorCount that counts resource i (1 for the first
\* failure of a batch) and the previous totalErrorCount plus one.
C8_ErrorEvent ==
  [][delivered'.kind = "error" =>
       LET i == delivered'.index
       IN  /\ triggered' =
                <<[type |-> "error", element |-> passed[i + 1], index |-> i,
                   target |-> delivered'.target,
                   errorCount |-> Cardinality(Errored \cup {i + 1}),
                   totalErrorCount |-> totalErrorCount + 1]>>
           /\ (ErrorsDelivered = 0 => triggered'[1].errorCount = 1)
           /\ totalErrorCount' = totalErrorCount + 1
           /\ counts'["error"] = counts["error"] + 1]_vars

C8_Witness ==
  /\ delivered.kind = "error"
  /\ delivered.index = 1
  /\ delivered.target = 1
  /\ Len(triggered) = 1
  /\ triggered[1].errorCount = 1
  /\ triggered[1].totalErrorCount = 2

\* C9: handling a loader error changes neither preReadyCount, readyCount,
\* totalCount nor any isPreReady or isReady flag; a resource that has errored
\* is counted when its loader emits preReady or ready, and a batch whose
\* loaders have all emitted ready has reached `ready`.
C9_ErrorsDoNotHaltProgress ==
  /\ [][delivered'.kind = "error" =>
          /\ preReadyCount' = preReadyCount
          /\ readyCount' = readyCount
          /\ totalCount' = totalCount
          /\ Len(elementInfos') = Len(elementInfos)
          /\ \A k \in 1..Len(elementInfos) :
               /\ elementInfos'[k].isPreReady = elementInfos[k].isPreReady
               /\ elementInfos'[k].isReady = elementInfos[k].isReady]_vars
  /\ [](Checking =>
          /\ \A k \in 1..Len(loaders) :
               /\ loaders[k].ready => elementInfos[k].isReady
               /\ loaders[k].preReady => elementInfos[k].isPreReady
          /\ (Len(loaders) >= 1 /\ AllLoadersReady) =>
               (readyCount = totalCount /\ counts["ready"] >= 1))

C9_Witness ==
  /\ Checking
  /\ Len(loaders) = 2
  /\ AllLoadersReady
  /\ delivered.kind = "ready"
  /\ elementInfos[delivered.index + 1].hasError
  /\ TriggeredOf("ready") # {}

\* C10: a check() made on a settled batch starts the new batch with all
\* counters 0 and all flags false; the first failure of the new batch is
\* reported with errorCount 1 and totalErrorCount 1, and the new batch
\* triggers `ready` exactly once, when its last loader emits ready.
C10_RecheckStartsAfresh ==
  (Checking /\ recheck) =>
     /\ delivered.kind = "check" =>
          /\ preReadyCount = 0 /\ readyCount = 0 /\ totalErrorCount = 0
          /\ getErrorCount(Self) = 0
          /\ \A k \in 1..Len(elementInfos) :
               /\ ~elementInfos[k].isPreReady
               /\ ~elementInfos[k].isReady
               /\ ~elementInfos[k].hasError
     /\ (delivered.kind = "error" /\ ErrorsDelivered = 1) =>
          (triggered[1].errorCount = 1 /\ triggered[1].totalErrorCount = 1)
     /\ Len(loaders) >= 1 => counts["ready"] = (IF AllLoadersReady THEN 1 ELSE 0)

\* C11: in a batch of n resources the k-th `preReadyElement` event carries
\* preReadyCount = k and totalCount = n, the k-th `readyElement` event carries
\* readyCount = k and totalCount = n, with k in 1..n, and exactly n
\* `readyElement` events have been emitted whenever `ready` is triggered.
C11_ElementEventsCountUpToTotal ==
  Checking =>
    /\ \A k \in TriggeredOf("preReadyElement") :
         /\ triggered[k].preReadyCount = counts["preReadyElement"]
         /\ triggered[k].preReadyCount \in 1..Len(passed)
         /\ triggered[k].totalCount = Len(passed)
    /\ \A k \in TriggeredOf("readyElement") :
         /\ triggered[k].readyCount = counts["readyElement"]
         /\ triggered[k].readyCount \in 1..Len(passed)
         /\ triggered[k].totalCount = Len(passed)
    /\ TriggeredOf("ready") # {} => counts["readyElement"] = Len(passed)

\* C14: clear() (called directly, by check() or by destroy()) calls destroy()
\* exactly once on the loader of every ElementInfo that is not ready and on no
\* loader of a ready one; called directly or by destroy() it leaves totalCount,
\* preReadyCount, readyCount and totalErrorCount at 0, elementInfos empty and
\* isPreReadyOver false.
C14_ClearDestroysUnfinishedAndResets ==
  [][ /\ delivered'.kind \in {"clear", "destroy", "check"} =>
           /\ Len(delivered'.discarded) = Len(elementInfos)
           /\ \A k \in 1..Len(elementInfos) :
                delivered'.discarded[k].destroyCalls =
                  IF elementInfos[k].isReady THEN 0 ELSE 1
      /\ delivered'.kind \in {"clear", "destroy"} =>
           /\ totalCount' = 0 /\ preReadyCount' = 0 /\ readyCount' = 0
           /\ totalErrorCount' = 0
           /\ elementInfos' = <<>>
           /\ isPreReadyOver' = FALSE ]_vars

\* clear() has discarded a batch with a ready and an unfinished resource.
C14_Witness ==
  /\ delivered.kind = "clear"
  /\ \E k \in 1..Len(delivered.discarded) :
       delivered.discarded[k].isReady /\ delivered.discarded[k].destroyCalls = 0
  /\ \E k \in 1..Len(delivered.discarded) :
       ~delivered.discarded[k].isReady /\ delivered.discarded[k].destroyCalls = 1
  /\ totalCount = 0 /\ elementInfos = <<>> /\ ~isPreReadyOver

\* C15: within one batch each ElementInfo's isPreReady and isReady only change
\* from false to true, and in every state preReadyCount is the number of
\* ElementInfo with isPreReady, readyCount the number with isReady, and neither
\* exceeds totalCount.
C15_CountersMatchFlags ==
  /\ [](/\ preReadyCount =
             Cardinality({k \in 1..Len(elementInfos) : elementInfos[k].isPreReady})
        /\ readyCount =
             Cardinality({k \in 1..Len(elementInfos) : elementInfos[k].isReady})
        /\ preReadyCount <= totalCount
        /\ readyCount <= totalCount)
  /\ [][delivered'.kind \in {"error", "preReady", "ready", "timeout"} =>
          /\ Len(elementInfos') = Len(elementInfos)
          /\ \A k \in 1..Len(elementInfos) :
               /\ elementInfos[k].isPreReady => elementInfos'[k].isPreReady
               /\ elementInfos[k].isReady => elementInfos'[k].isReady]_vars

\* C16: when the handler of one loader ready event with withPreReady = true
\* brings both preReadyCount and readyCount to totalCount, it triggers, in this
\* order, `preReadyElement`, `readyElement`, `preReady`, `ready`; the
\* `preReady` payload has isReady = true and readyCount = totalCount, the
\* `readyElement` payload has isPreReady = true and isPreReadyOver = false.
C16_BothMilestonesInOneHandler ==
  ( /\ Checking
    /\ delivered.kind = "ready"
    /\ delivered.withPreReady
    /\ preReadyCount = totalCount
    /\ readyCount = totalCount ) =>
      /\ [k \in 1..Len(triggered) |-> triggered[k].type] =
           <<"preReadyElement", "readyElement", "preReady", "ready">>
      /\ triggered[3].isReady
      /\ triggered[3].readyCount = totalCount
      /\ triggered[2].isPreReady
      /\ ~triggered[2].isPreReadyOver

\* C19: isPreReady() is true iff every ElementInfo of the current batch has
\* isPreReady and isReady() iff every one has isReady; hence isReady() iff
\* readyCount = totalCount and isPreReady() iff preReadyCount = totalCount;
\* both are true on a Manager with no batch (before the first check() and
\* after clear()).
C19_QueriesMatchFlagsAndCounters ==
  /\ isPreReady(Self) <=> \A k \in 1..Len(elementInfos) : elementInfos[k].isPreReady
  /\ isReady(Self) <=> \A k \in 1..Len(elementInfos) : elementInfos[k].isReady
  /\ isReady(Self) <=> readyCount = totalCount
  /\ isPreReady(Self) <=> preReadyCount = totalCount
  /\ phase \in {"idle", "cleared"} => isPreReady(Self) /\ isReady(Self)

\* C20 as stated: when the Manager is destroyed, destroy() is called on the
\* loader of every resource of its current batch, the batch state is emptied
\* and the Manager's own listeners are removed.
C20_DestroyTearsDownEveryLoader ==
  [][delivered'.kind = "destroy" =>
       /\ Len(delivered'.discarded) = Len(elementInfos)
       /\ \A k \in 1..Len(elementInfos) : delivered'.discarded[k].destroyCalls = 1
       /\ elementInfos' = <<>>
       /\ totalCount' = 0 /\ preReadyCount' = 0 /\ readyCount' = 0
       /\ totalErrorCount' = 0
       /\ ~listening']_vars

\* C20 amended: when the Manager is destroyed, destroy() is called exactly
\* once on the loader of every resource of its current batch that is not yet
\* ready and on no loader of a ready one, the batch state is emptied and the
\* Manager's own listeners are removed.
C20_DestroyTearsDownUnfinishedLoaders ==
  [][delivered'.kind = "destroy" =>
       /\ Len(delivered'.discarded) = Len(elementInfos)
       /\ \A k \in 1..Len(elementInfos) :
            delivered'.discarded[k].destroyCalls =
              IF elementInfos[k].isReady THEN 0 ELSE 1
       /\ elementInfos' = <<>>
       /\ totalCount' = 0 /\ preReadyCount' = 0 /\ readyCount' = 0
       /\ totalErrorCount' = 0
       /\ ~listening']_vars

\* destroy() has discarded a batch with a ready and an unfinished resource.
C20_Witness ==
  /\ delivered.kind = "destroy"
  /\ \E k \in 1..Len(delivered.discarded) :
       delivered.discarded[k].isReady /\ delivered.discarded[k].destroyCalls = 0
  /\ \E k \in 1..Len(delivered.discarded) :
       ~delivered.discarded[k].isReady /\ delivered.discarded[k].destroyCalls = 1
  /\ elementInfos = <<>> /\ ~listening

\* C12: when a nested child of a container fails to load, the owning Manager
\* triggers one `error` event whose index is the container's index in the
\* owning batch, whose element is the container and whose target is the
\* failing child; each failure raises the owning Manager's totalErrorCount by
\* one, and all the failures of one container raise its errorCount by one.
C12_NestedErrorNamesContainerAndChild ==
  /\ [][handled'.kind = "childError" =>
          LET index == wiring.index
              e == owner'.triggered[1]
          IN  /\ Len(owner'.triggered) = 1
              /\ e.type = "error"
              /\ e.index = index
              /\ e.element = Container(Len(childLoaders))
              /\ e.element = InfoAt(owner, index).element
              /\ e.target = InfoAt(childrenImReady, handled'.index).element
              /\ e.target = Child(handled'.index + 1)
              /\ owner'.totalErrorCount = owner.totalErrorCount + 1
              /\ e.totalErrorCount = owner'.totalErrorCount
              /\ getErrorCount(owner') =
                   IF InfoAt(owner, index).hasError THEN getErrorCount(owner)
                   ELSE getErrorCount(owner) + 1
              /\ e.errorCount = getErrorCount(owner')]_vars
  /\ [](wiring.stage = "checking" =>
          /\ owner.totalErrorCount = SumErrors(childLoaders)
          /\ getErrorCount(owner) = IF SumErrors(childLoaders) > 0 THEN 1 ELSE 0)

\* Two different children of a container that is second in its batch have
\* failed.
C12_Witness ==
  /\ handled.kind = "childError"
  /\ wiring.index = 1
  /\ Len(childLoaders) = 2
  /\ childLoaders[1].errors = 1 /\ childLoaders[2].errors = 1
  /\ owner.totalErrorCount = 2
  /\ getErrorCount(owner) = 1
  /\ owner.triggered[1].target = Child(handled.index + 1)

\* C13: for a container whose children are checked through requestChildren,
\* loader.onPreReady() or loader.onReady(true) is never called while a child
\* of the nested Manager's batch still has isPreReady = false.
C13_ContainerPreReadyAfterChildren ==
  [][( /\ wiring'.requested = "children"
       /\ \/ wiring'.calls.onPreReady > wiring.calls.onPreReady
          \/ wiring'.calls.onReadyTrue > wiring.calls.onReadyTrue ) =>
        isPreReady(childrenImReady')]_vars

\* The ElementInfo of the plain resources beside the container.
SiblingInfos == {k \in 1..Len(owner.elementInfos) : k # wiring.index + 1}

\* C17: whatever its children do, a container checked through requestChildren
\* is told of the pre-ready milestone once and of the ready milestone once:
\* either onPreReady() and later onReady(false), or onReady(true) alone;
\* onReady is called once every nested child is ready and not before, and
\* the container then has added exactly 1 to the owning Manager's
\* preReadyCount and exactly 1 to its readyCount.
C17_ContainerIsOneOpaqueLoader ==
  (wiring.stage = "checking" /\ wiring.requested = "children") =>
    LET calls == wiring.calls
        toldReady == calls.onReadyTrue + calls.onReadyFalse
    IN  /\ calls.onPreReady <= 1
        /\ toldReady <= 1
        /\ calls.onReadyTrue = 1 => calls.onPreReady = 0
        /\ calls.onReadyFalse = 1 => calls.onPreReady = 1
        /\ toldReady = 1 =>
             /\ \A k \in 1..Len(childLoaders) : childLoaders[k].ready
             /\ owner.preReadyCount =
                  1 + Cardinality({k \in SiblingInfos : owner.elementInfos[k].isPreReady})
             /\ owner.readyCount =
                  1 + Cardinality({k \in SiblingInfos : owner.elementInfos[k].isReady})
        /\ ( /\ Len(childLoaders) >= 1
             /\ \A k \in 1..Len(childLoaders) : childLoaders[k].ready ) =>
             toldReady = 1

\* A container without checkable children has requested them to be checked.
ZeroChildrenRequested ==
  /\ wiring.stage = "checking"
  /\ wiring.requested = "children"
  /\ childLoaders = <<>>

\* The owning Manager counts the container as pre-ready and ready, its
\* loader having been told onReady(true) and nothing else.
ContainerCounted ==
  /\ wiring.stage = "checking"
  /\ wiring.calls = [NoCalls EXCEPT !.onReadyTrue = 1]
  /\ InfoAt(owner, wiring.index).isPreReady
  /\ InfoAt(owner, wiring.index).isReady

\* C18: a container with zero checkable children does not deadlock.  Once it
\* has requested its children to be checked, the nested Manager's deferred
\* firing triggers `preReady` with isReady = true and then `ready`, the
\* container's loader is told onReady(true), and (unless the owning Manager is
\* destroyed first) the owning Manager eventually counts the container as
\* pre-ready and ready; it has emitted its own `preReady` and `ready` as soon
\* as the rest of its batch is pre-ready and ready too.
C18_EmptyContainerCompletes ==
  /\ ZeroChildrenRequested ~> (ContainerCounted \/ wiring.stage = "destroyed")
  /\ []((handled.kind = "childrenTimeout" /\ ZeroChildrenRequested) =>
          /\ Len(childrenImReady.triggered) = 2
          /\ childrenImReady.triggered[1].type = "preReady"
          /\ childrenImReady.triggered[1].isReady
          /\ childrenImReady.triggered[2].type = "ready"
          /\ ContainerCounted)
  /\ []((ZeroChildrenRequested /\ ContainerCounted
           /\ isPreReady(owner) /\ isReady(owner)) =>
          /\ owner.counts["preReady"] = 1
          /\ owner.counts["ready"] = 1)

\* The deferred firing of an empty nested batch has made the owning Manager
\* of a lone container emit `preReady` and `ready`.
C18_Witness ==
  /\ ZeroChildrenRequested
  /\ handled.kind = "childrenTimeout"
  /\ ContainerCounted
  /\ Len(owner.elementInfos) = 1
  /\ [k \in 1..Len(owner.triggered) |-> owner.triggered[k].type] =
       <<"preReadyElement", "readyElement", "preReady", "ready">>

\* C22: from the moment clear() or destroy() returns until the next check(),
\* the Manager triggers no `preReady` or `ready` event and its state stays
\* totalCount = 0, preReadyCount = 0, readyCount = 0, totalErrorCount = 0 and
\* isPreReadyOver = false, also when the cancelled batch was an empty one
\* whose deferred firing had not yet run.
C22_ClearCancelsTheBatch ==
  phase \in {"cleared", "destroyed"} =>
    /\ TriggeredOf("preReady") = {}
    /\ TriggeredOf("ready") = {}
    /\ counts["preReady"] = 0
    /\ counts["ready"] = 0
    /\ totalCount = 0 /\ preReadyCount = 0 /\ readyCount = 0
    /\ totalErrorCount = 0
    /\ ~isPreReadyOver

\* C21: an error event from a loader of a discarded batch (one that was
\* ready and therefore not destroyed) changes no hasError, isPreReady or
\* isReady flag, no counter and not totalErrorCount of the current batch,
\* makes the Manager trigger no event, and does not reference an ElementInfo
\* slot that no longer exists.
C21_LateEventsAreIgnored ==
  [][delivered'.kind = "lateError" =>
       /\ elementInfos' = elementInfos
       /\ totalCount' = totalCount
       /\ preReadyCount' = preReadyCount
       /\ readyCount' = readyCount
       /\ totalErrorCount' = totalErrorCount
       /\ triggered' = <<>>
       /\ delivered'.outcome # "TypeError"]_vars


====
